---- MODULE Spec2Model ----
(***************************************************************************)
(* Model of the RAG API server backend (src/backend/ggml.rs):              *)
(*   - rag_query_handler: the query pipeline (validate, embed, retrieve,   *)
(*     merge the context into the prompt, dispatch to the chat model);     *)
(*   - chat_completions_handler: the plain chat endpoint;                  *)
(*   - RagPromptBuilder::build: the prompt merger, a pure function.        *)
(* Strings are sequences of one-character strings, so that trimming and    *)
(* JSON rendering are computed and not assumed.                            *)
(***************************************************************************)
EXTENDS Integers, Sequences, FiniteSets, TLC

\* ------------------------------------------------------------------ bounds
\* Longest message list of a request.
MaxMsgs == 2
\* Most scored points the vector search returns.
MaxPoints == 2
\* Longest context list handed to RagPromptBuilder::build on its own.
MaxCtx == 2

\* ----------------------------------------------------------------- strings
SP == " "
NL == "\n"
QUOTE == "\""
BSL == "\\"

\* char::is_whitespace, on the characters of the model
IsWhitespace(c) == c \in {SP, NL}

RECURSIVE TrimEnd(_)
\* str::trim_end: drop the trailing whitespace
TrimEnd(s) ==
    IF s = <<>> THEN <<>>
    ELSE IF IsWhitespace(s[Len(s)]) THEN TrimEnd(SubSeq(s, 1, Len(s) - 1))
    ELSE s

RECURSIVE TrimStart(_)
\* str::trim_start: drop the leading whitespace
TrimStart(s) ==
    IF s = <<>> THEN <<>>
    ELSE IF IsWhitespace(Head(s)) THEN TrimStart(Tail(s))
    ELSE s

\* str::trim: drop the whitespace at both ends
Trim(s) == TrimStart(TrimEnd(s))

\* serde_json's escape of one character inside a JSON string
EscapeChar(c) ==
    IF c = NL THEN <<BSL, "n">>
    ELSE IF c = QUOTE THEN <<BSL, QUOTE>>
    ELSE IF c = BSL THEN <<BSL, BSL>>
    ELSE <<c>>

RECURSIVE EscapeStr(_)
EscapeStr(s) ==
    IF s = <<>> THEN <<>> ELSE EscapeChar(Head(s)) \o EscapeStr(Tail(s))

\* Display of a serde_json::Value holding a string: its JSON rendering,
\* quoted and escaped
ValueToString(s) == <<QUOTE>> \o EscapeStr(s) \o <<QUOTE>>

SeqsUpTo(S, n) == UNION {[1..k -> S] : k \in 0..n}

\* ---------------------------------------------------------------- messages
\* Option<T> as a record, so that every value of one variable has one shape
None == [some |-> FALSE, v |-> <<>>]
Some(x) == [some |-> TRUE, v |-> x]

\* ChatCompletionRequestMessage: role, content, optional name. kind tells a
\* text content from a multi-part content (user messages only).
Msg(role, kind, content, name) ==
    [role |-> role, kind |-> kind, content |-> content, name |-> name]

\* ChatCompletionRequestMessage::new_system_message(content, name)
new_system_message(content, name) == Msg("system", "text", content, name)

NoName == None
Bob == Some(<<"n">>)

S_pad == <<SP, "a", NL>>
S_b == <<"b">>
Q_text == <<"q">>

\* The messages a caller may send
Messages ==
    {Msg("system", "text", c, n) : c \in {S_pad, S_b}, n \in {NoName, Bob}}
    \cup {Msg("user", "text", Q_text, NoName),
          Msg("user", "parts", <<>>, NoName),
          Msg("assistant", "text", S_b, NoName)}

StreamFlags == {"Some(true)", "Some(false)", "None"}

\* An HTTP request carrying a ChatCompletionRequest
Requests ==
    {[method |-> "OPTIONS", parse_ok |-> FALSE, messages |-> <<>>, stream |-> "None"],
     [method |-> "POST", parse_ok |-> FALSE, messages |-> <<>>, stream |-> "None"]}
    \cup [method : {"POST"}, parse_ok : {TRUE},
          messages : SeqsUpTo(Messages, MaxMsgs), stream : StreamFlags]

\* ------------------------------------------------------------ scored points
\* ScoredPoint.payload: absent, present without "source", or with a source
NoPayload == [present |-> FALSE, has_source |-> FALSE, source |-> <<>>]
EmptyPayload == [present |-> TRUE, has_source |-> FALSE, source |-> <<>>]
SourcePayload(s) == [present |-> TRUE, has_source |-> TRUE, source |-> s]

Src_a == <<"a">>
Src_b == <<"b", NL>>

Points == {NoPayload, EmptyPayload, SourcePayload(Src_a), SourcePayload(Src_b)}

\* Result<Vec<ScoredPoint>, _> of rag_retrieve_context
SearchOutcomes ==
    {[ok |-> FALSE, points |-> <<>>]}
    \cup [ok : {TRUE}, points : SeqsUpTo(Points, MaxPoints)]

\* The retrieval configuration when set: result limit, score threshold
\* (scores and thresholds in tenths)
QdrantConfigs == [limit : {1, 2}, score_threshold : {8}]

\* What the vector store holds for a query: points with their score, best
\* first
Candidates == [score : {7, 9}, payload : Points]
Collections ==
    {c \in SeqsUpTo(Candidates, MaxPoints) :
        \A i \in 1..(Len(c) - 1) : c[i].score >= c[i + 1].score}

\* `x as usize`: the value itself for every limit that fits the pointer
\* width, which all limits of QdrantConfigs do
as_usize(x) == x

\* SearchArgs without the score threshold
SearchArgs_no_threshold(config) ==
    [limit |-> as_usize(config.limit), score_threshold |-> None]

\* The limit and score threshold handed to rag_retrieve_context
SearchArgs(config) ==
    [limit |-> as_usize(config.limit),
     score_threshold |-> Some(config.score_threshold)]

RECURSIVE AboveThreshold(_, _)
\* The candidates the threshold lets through, in order
AboveThreshold(c, score_threshold) ==
    IF c = <<>> THEN <<>>
    ELSE (IF score_threshold.some => Head(c).score >= score_threshold.v
          THEN <<Head(c)>> ELSE <<>>)
         \o AboveThreshold(Tail(c), score_threshold)

\* The vector store's search: the best `limit` candidates that reach the
\* threshold; the handler reads their payload (the score is only logged)
rag_retrieve_context(c, args) ==
    LET hits == AboveThreshold(c, args.score_threshold)
        n == IF Len(hits) < args.limit THEN Len(hits) ELSE args.limit
    IN  [i \in 1..n |-> hits[i].payload]

\* Result of rag_query_to_embeddings: an error, no vector, or one vector
EmbedOutcomes == {"Err", "OkEmpty", "Ok"}

\* Result of llama_core::utils::embedding_model_names
ModelNamesOutcomes == {"Err", "OkEmpty", "Ok"}

\* Configured base prompts
P_plain == <<"p">>
P_pad == <<SP, "p", SP>>
Prompts == {None, Some(P_plain), Some(P_pad)}

\* -------------------------------------------------------------- file names
\* File names and paths are strings too: sequences of characters, "/"
\* between two components
SLASH == "/"
DOT == "."

\* char::to_lowercase, on the characters of the model
to_lowercase_char(c) ==
    IF c = "T" THEN "t" ELSE IF c = "X" THEN "x"
    ELSE IF c = "M" THEN "m" ELSE IF c = "D" THEN "d" ELSE c

\* str::to_lowercase
to_lowercase(s) == [i \in 1..Len(s) |-> to_lowercase_char(s[i])]

\* str::ends_with
ends_with(s, suffix) ==
    /\ Len(s) >= Len(suffix)
    /\ SubSeq(s, Len(s) - Len(suffix) + 1, Len(s)) = suffix

Ext_txt == <<DOT, "t", "x", "t">>
Ext_md == <<DOT, "m", "d">>

\* The upload gate that lets any file name through
ExtensionAllowed_any(filename) == TRUE

\* The upload gate: the lower-cased file name ends with ".txt" or ".md"
ExtensionAllowed(filename) ==
    \/ ends_with(to_lowercase(filename), Ext_txt)
    \/ ends_with(to_lowercase(filename), Ext_md)

RECURSIVE Split(_)
\* The components of a path string: what stands between the "/"
Split(s) ==
    IF \A i \in 1..Len(s) : s[i] # SLASH THEN <<s>>
    ELSE LET k == CHOOSE i \in 1..Len(s) :
                      /\ s[i] = SLASH
                      /\ \A j \in 1..(i - 1) : s[j] # SLASH
         IN  <<SubSeq(s, 1, k - 1)>> \o Split(SubSeq(s, k + 1, Len(s)))

\* Path::join of relative paths, as components
PathJoin(a, b) == a \o Split(b)

Archives == <<"A">>
\* Path::new("archives")
ArchivesPath == <<Archives>>

\* The component is "." or empty: the path stays where it is
IsCurDir(comp) == comp = <<>> \/ comp = <<DOT>>
IsParentDir(comp) == comp = <<DOT, DOT>>

RECURSIVE Walk(_, _, _)
\* The operating system's look-up of the components `path` from directory
\* `cur`: every component is looked up in an existing directory; ".." goes
\* to the parent (the working directory is its own parent). ok is FALSE when
\* a component is looked up in something that is no directory.
Walk(dirs, cur, path) ==
    IF path = <<>> THEN [ok |-> TRUE, path |-> cur]
    ELSE IF cur \notin dirs THEN [ok |-> FALSE, path |-> cur]
    ELSE IF IsCurDir(Head(path)) THEN Walk(dirs, cur, Tail(path))
    ELSE IF IsParentDir(Head(path))
    THEN Walk(dirs, IF cur = <<>> THEN cur ELSE SubSeq(cur, 1, Len(cur) - 1),
              Tail(path))
    ELSE Walk(dirs, Append(cur, Head(path)), Tail(path))

Resolve(dirs, path) == Walk(dirs, <<>>, path)

\* Path::exists
PathExists(dirs, files, path) ==
    LET r == Resolve(dirs, path)
    IN  r.ok /\ (r.path \in dirs \/ r.path \in DOMAIN files)

\* fs::create_dir succeeds: the path is free and its parent is a directory
CanCreateDir(dirs, files, path) ==
    LET r == Resolve(dirs, path)
    IN  /\ r.ok
        /\ r.path \notin dirs
        /\ r.path \notin DOMAIN files
        /\ r.path # <<>>
        /\ SubSeq(r.path, 1, Len(r.path) - 1) \in dirs

\* File::create succeeds: the path is no directory and its parent is one
CanCreateFile(dirs, files, path) ==
    LET r == Resolve(dirs, path)
    IN  /\ r.ok
        /\ r.path \notin dirs
        /\ r.path # <<>>
        /\ SubSeq(r.path, 1, Len(r.path) - 1) \in dirs

\* File::open succeeds: the path is a file
CanOpenFile(dirs, files, path) ==
    LET r == Resolve(dirs, path)
    IN  r.ok /\ r.path \in DOMAIN files

\* Path::file_name: the last component that is a name; none when the path
\* ends in ".."
RECURSIVE file_name(_)
file_name(path) ==
    IF path = <<>> THEN None
    ELSE IF IsCurDir(path[Len(path)]) THEN file_name(SubSeq(path, 1, Len(path) - 1))
    ELSE IF IsParentDir(path[Len(path)]) THEN None
    ELSE Some(path[Len(path)])

\* Path::extension: what follows the last "." of the file name, none when
\* there is no "." or nothing before it
extension(path) ==
    LET f == file_name(path) IN
    IF ~f.some THEN None
    ELSE IF \A i \in 1..Len(f.v) : f.v[i] # DOT THEN None
    ELSE LET k == CHOOSE i \in 1..Len(f.v) :
                      /\ f.v[i] = DOT
                      /\ \A j \in (i + 1)..Len(f.v) : f.v[j] # DOT
         IN  IF k = 1 THEN None ELSE Some(SubSeq(f.v, k + 1, Len(f.v)))

\* ------------------------------------------------------------------- state
VARIABLES
    QDRANT_CONFIG,      \* whether the retrieval configuration is set
    qdrant_config,      \* its value when set: limit, score_threshold
    GLOBAL_RAG_PROMPT,  \* Option: the configured base prompt
    pc,                 \* where the request in flight stands
    handler,            \* the handler serving it
    req,                \* the request as the caller sent it
    chat_request,       \* the handler's working copy: messages, stream
    embedding_response, \* what rag_query_to_embeddings returned, "none" before
    search_call,        \* Option: the arguments of the search call
    collection,         \* what the vector store held for the query
    search_result,      \* the Result rag_retrieve_context returned
    scored_points,      \* the points the pipeline goes on with
    merged,             \* Option: the context list handed to build
    calls,              \* the collaborator calls and returns, in order
    dispatched,         \* Option: what went to the completion collaborator
    resp,               \* the response: status and message
    b_pc,               \* the merger on its own: position
    b_in,               \* ... its messages argument before the call
    b_messages,         \* ... its messages argument (mutated in place)
    b_context,          \* ... its context argument
    b_result,           \* ... its result
    fs_dirs,            \* the file system: the directories, as resolved paths
    fs_files,           \* ... the files: resolved path -> bytes
    procs,              \* the upload and ingestion requests in flight
    ch                  \* the chunks request: position, request, outcome

vars == <<QDRANT_CONFIG, qdrant_config, GLOBAL_RAG_PROMPT, pc, handler, req,
          chat_request, embedding_response, search_call, collection, search_result, scored_points, merged, calls, dispatched, resp,
          b_pc, b_in, b_messages, b_context, b_result,
          fs_dirs, fs_files, procs, ch>>

qvars == <<QDRANT_CONFIG, qdrant_config, GLOBAL_RAG_PROMPT, pc, handler, req,
           chat_request, embedding_response, search_call, collection, search_result, scored_points, merged, calls, dispatched, resp>>

bvars == <<b_pc, b_in, b_messages, b_context, b_result>>

avars == <<fs_dirs, fs_files, procs, ch>>

NoResp == [status |-> "none", msg |-> ""]
NoChatRequest == [messages |-> <<>>, stream |-> "None"]
\* No search has returned yet
NoSearch == [ok |-> TRUE, points |-> <<>>]

\* error::bad_request / error::internal_server_error / a 200 response
bad_request(m) == [status |-> "bad_request", msg |-> m]
internal_server_error(m) == [status |-> "internal_server_error", msg |-> m]
ok_response(m) == [status |-> "ok", msg |-> m]

\* ------------------------------------------------------- the prompt merger
\* RagPromptBuilder::build without the trimming of the system content
RagPromptBuilder_build_no_trim(messages, context) ==
    IF messages = <<>> THEN [err |-> "NoMessages", messages |-> messages]
    ELSE IF context = <<>> THEN [err |-> "Operation", messages |-> messages]
    ELSE IF messages[1].role = "system"
    THEN [err |-> "Ok",
          messages |-> [messages EXCEPT ![1] =
              new_system_message(
                  messages[1].content \o <<NL>> \o TrimEnd(context[1]),
                  messages[1].name)]]
    ELSE [err |-> "Ok", messages |-> messages]

\* RagPromptBuilder::build that puts a system message with the context in
\* front of a message list that starts with none
RagPromptBuilder_build_insert(messages, context) ==
    IF messages = <<>> THEN [err |-> "NoMessages", messages |-> messages]
    ELSE IF context = <<>> THEN [err |-> "Operation", messages |-> messages]
    ELSE IF messages[1].role = "system"
    THEN [err |-> "Ok",
          messages |-> [messages EXCEPT ![1] =
              new_system_message(
                  Trim(messages[1].content) \o <<NL>> \o TrimEnd(context[1]),
                  messages[1].name)]]
    ELSE [err |-> "Ok",
          messages |-> <<new_system_message(TrimEnd(context[1]),
                                            messages[1].name)>> \o messages]

\* RagPromptBuilder::build that takes an empty context list for nothing to do
RagPromptBuilder_build_lenient(messages, context) ==
    IF messages = <<>> THEN [err |-> "NoMessages", messages |-> messages]
    ELSE IF context = <<>> THEN [err |-> "Ok", messages |-> messages]
    ELSE IF messages[1].role = "system"
    THEN [err |-> "Ok",
          messages |-> [messages EXCEPT ![1] =
              new_system_message(
                  Trim(messages[1].content) \o <<NL>> \o TrimEnd(context[1]),
                  messages[1].name)]]
    ELSE [err |-> "Ok", messages |-> messages]

\* RagPromptBuilder::build(messages, context): the error, and messages after
RagPromptBuilder_build(messages, context) ==
    IF messages = <<>> THEN [err |-> "NoMessages", messages |-> messages]
    ELSE IF context = <<>> THEN [err |-> "Operation", messages |-> messages]
    ELSE LET ctx == TrimEnd(context[1]) IN
         IF messages[1].role = "system"
         THEN [err |-> "Ok",
               messages |-> [messages EXCEPT ![1] =
                   new_system_message(
                       Trim(messages[1].content) \o <<NL>> \o TrimEnd(ctx),
                       messages[1].name)]]
         ELSE [err |-> "Ok", messages |-> messages]

\* ------------------------------------------------------ the query pipeline
\* ValidateLast without the check of the last message's role
ValidateLast_any_role(messages) ==
    IF messages = <<>> THEN "Messages should not be empty"
    ELSE IF messages[Len(messages)].kind # "text"
    THEN "The last message must be a text content user message"
    ELSE "ok"

\* rag_query_handler's check of the last message: "ok" when it is a user
\* message with text content, else the reason it is rejected
ValidateLast(messages) ==
    IF messages = <<>> THEN "Messages should not be empty"
    ELSE LET last_message == messages[Len(messages)] IN
         IF last_message.role # "user"
         THEN "The last message must be a user message"
         ELSE IF last_message.kind # "text"
         THEN "The last message must be a text content user message"
         ELSE "ok"

\* retrieve_outcome with the search error returned to the caller (the line
\* the code comments out)
retrieve_outcome_propagate(o) ==
    IF o.ok THEN [fail |-> FALSE, points |-> o.points]
    ELSE [fail |-> TRUE, points |-> <<>>]

\* The points the pipeline goes on with: a failed search counts as no point.
\* fail tells whether the failure ends the request (it never does).
retrieve_outcome(o) ==
    IF o.ok THEN [fail |-> FALSE, points |-> o.points]
    ELSE [fail |-> FALSE, points |-> <<>>]

\* ShouldInject that never injects
ShouldInject_never(points) == FALSE

\* ShouldInject without the emptiness test
ShouldInject_always(points) == TRUE

\* `!scored_points.is_empty()`: whether the context is injected
ShouldInject(points) == points # <<>>

RECURSIVE BuildContext_reversed(_)
\* BuildContext walking the points from the last to the first
BuildContext_reversed(points) ==
    IF points = <<>> THEN <<>>
    ELSE BuildContext_reversed(Tail(points))
         \o (IF Head(points).present /\ Head(points).has_source
             THEN ValueToString(Head(points).source) \o <<NL, NL>>
             ELSE <<>>)

RECURSIVE BuildContext(_)
\* The context string: each point's source, rendered by to_string() and
\* followed by "\n\n"; a point without payload or without source adds nothing
BuildContext(points) ==
    IF points = <<>> THEN <<>>
    ELSE (IF Head(points).present /\ Head(points).has_source
          THEN ValueToString(Head(points).source) \o <<NL, NL>>
          ELSE <<>>)
         \o BuildContext(Tail(points))

\* ReplaceSystemMessage that leaves a caller's system message as it is
ReplaceSystemMessage_keep(messages, global_rag_prompt) ==
    IF messages[1].role = "system"
    THEN messages
    ELSE <<new_system_message(global_rag_prompt, messages[1].name)>> \o messages

\* ReplaceSystemMessage that pushes the new system message at the end
ReplaceSystemMessage_append(messages, global_rag_prompt) ==
    LET system_message ==
            new_system_message(global_rag_prompt, messages[1].name)
    IN  IF messages[1].role = "system"
        THEN [messages EXCEPT ![1] = system_message]
        ELSE messages \o <<system_message>>

\* Put the global rag prompt at index 0: replace a system message there,
\* insert before anything else; the name of the old message 0 is kept
ReplaceSystemMessage(messages, global_rag_prompt) ==
    LET system_message ==
            new_system_message(global_rag_prompt, messages[1].name)
    IN  IF messages[1].role = "system"
        THEN [messages EXCEPT ![1] = system_message]
        ELSE <<system_message>> \o messages

\* CompletionMode that streams unless told not to
CompletionMode_stream_by_default(stream) ==
    IF stream = "Some(false)" THEN "chat_completions"
    ELSE "chat_completions_stream"

\* `match chat_request.stream`: the completion operation dispatched to
CompletionMode(stream) ==
    IF stream = "Some(true)" THEN "chat_completions_stream"
    ELSE "chat_completions"

Call(op) == [op |-> op, ev |-> "call"]
Ret(op) == [op |-> op, ev |-> "ret"]

\* What a request leaves behind of the previous one
ResetRequest ==
    /\ embedding_response' = "none"
    /\ search_call' = None
    /\ collection' = <<>>
    /\ search_result' = NoSearch
    /\ scored_points' = <<>>
    /\ merged' = None
    /\ dispatched' = None

\* The handler returns `r` without calling anything
ReturnEarly(r) ==
    /\ resp' = r
    /\ pc' = "done"
    /\ calls' = <<>>

\* rag_query_handler, from its entry to its first await on a collaborator
rag_query_handler ==
    /\ pc = "idle"
    /\ \E r \in Requests, names \in ModelNamesOutcomes :
        /\ req' = r
        /\ handler' = "rag_query_handler"
        /\ ResetRequest
        /\ chat_request' = IF r.method # "OPTIONS" /\ r.parse_ok
                           THEN [messages |-> r.messages, stream |-> r.stream]
                           ELSE NoChatRequest
        /\ IF r.method = "OPTIONS" THEN ReturnEarly(ok_response("empty"))
           ELSE IF ~r.parse_ok
           THEN ReturnEarly(bad_request("Fail to parse chat completion request"))
           ELSE IF ~QDRANT_CONFIG
           THEN ReturnEarly(internal_server_error("The Qdrant config is not set."))
           ELSE IF ValidateLast(r.messages) # "ok"
           THEN ReturnEarly(bad_request(ValidateLast(r.messages)))
           ELSE IF names = "Err"
           THEN ReturnEarly(internal_server_error("embedding_model_names"))
           ELSE IF names = "OkEmpty"
           THEN /\ calls' = <<>>
                /\ pc' = "panicked"
                /\ resp' = NoResp
           ELSE /\ calls' = <<Call("embed")>>
                /\ pc' = "embedding"
                /\ resp' = NoResp
    /\ UNCHANGED <<QDRANT_CONFIG, qdrant_config, GLOBAL_RAG_PROMPT>>
    /\ UNCHANGED bvars
    /\ UNCHANGED avars

\* rag_query_to_embeddings_returns that calls the embedding again after an
\* error
rag_query_to_embeddings_returns_retry ==
    /\ pc = "embedding"
    /\ \E o \in EmbedOutcomes :
        /\ embedding_response' = o
        /\ IF o = "Err"
           THEN /\ calls' = calls \o <<Ret("embed"), Call("embed")>>
                /\ search_call' = search_call
                /\ resp' = resp
                /\ pc' = "embedding"
           ELSE IF o = "OkEmpty"
           THEN /\ calls' = Append(calls, Ret("embed"))
                /\ search_call' = search_call
                /\ resp' = internal_server_error("No embeddings returned")
                /\ pc' = "done"
           ELSE /\ calls' = calls \o <<Ret("embed"), Call("search")>>
                /\ search_call' = Some(SearchArgs(qdrant_config))
                /\ resp' = resp
                /\ pc' = "retrieving"
    /\ UNCHANGED <<QDRANT_CONFIG, qdrant_config, GLOBAL_RAG_PROMPT, handler, req,
                   chat_request, collection, search_result, scored_points,
                   merged, dispatched>>
    /\ UNCHANGED bvars
    /\ UNCHANGED avars

\* rag_query_to_embeddings_returns that goes on to the search with an empty
\* embedding response
rag_query_to_embeddings_returns_lenient ==
    /\ pc = "embedding"
    /\ \E o \in EmbedOutcomes :
        /\ embedding_response' = o
        /\ IF o = "Err"
           THEN /\ calls' = Append(calls, Ret("embed"))
                /\ search_call' = search_call
                /\ resp' = internal_server_error("rag_query_to_embeddings")
                /\ pc' = "done"
           ELSE /\ calls' = calls \o <<Ret("embed"), Call("search")>>
                /\ search_call' = Some(SearchArgs(qdrant_config))
                /\ resp' = resp
                /\ pc' = "retrieving"
    /\ UNCHANGED <<QDRANT_CONFIG, qdrant_config, GLOBAL_RAG_PROMPT, handler, req,
                   chat_request, collection, search_result, scored_points,
                   merged, dispatched>>
    /\ UNCHANGED bvars
    /\ UNCHANGED avars

\* rag_query_to_embeddings returns: an error or an empty response ends the
\* request, a vector goes to rag_retrieve_context
rag_query_to_embeddings_returns ==
    /\ pc = "embedding"
    /\ \E o \in EmbedOutcomes :
        /\ embedding_response' = o
        /\ IF o = "Err"
           THEN /\ calls' = Append(calls, Ret("embed"))
                /\ search_call' = search_call
                /\ resp' = internal_server_error("rag_query_to_embeddings")
                /\ pc' = "done"
           ELSE IF o = "OkEmpty"
           THEN /\ calls' = Append(calls, Ret("embed"))
                /\ search_call' = search_call
                /\ resp' = internal_server_error("No embeddings returned")
                /\ pc' = "done"
           ELSE /\ calls' = calls \o <<Ret("embed"), Call("search")>>
                /\ search_call' = Some(SearchArgs(qdrant_config))
                /\ resp' = resp
                /\ pc' = "retrieving"
    /\ UNCHANGED <<QDRANT_CONFIG, qdrant_config, GLOBAL_RAG_PROMPT, handler, req,
                   chat_request, collection, search_result, scored_points,
                   merged, dispatched>>
    /\ UNCHANGED bvars
    /\ UNCHANGED avars

\* The request fails after the search returned
FailAfterSearch(r) ==
    /\ resp' = r
    /\ pc' = "done"
    /\ calls' = Append(calls, Ret("search"))
    /\ dispatched' = dispatched

\* The conversation `messages` goes to the completion collaborator
Dispatch(messages) ==
    /\ chat_request' = [chat_request EXCEPT !.messages = messages]
    /\ dispatched' = Some([messages |-> messages,
                           stream |-> chat_request.stream,
                           mode |-> CompletionMode(chat_request.stream)])
    /\ calls' = calls \o <<Ret("search"), Call("complete")>>
    /\ resp' = resp
    /\ pc' = "completing"

\* rag_retrieve_context returns: build the context, rewrite the system
\* prompt when points were retrieved, dispatch to the chat model
rag_retrieve_context_returns ==
    /\ pc = "retrieving"
    /\ \E c \in Collections, ok \in BOOLEAN :
        LET o == IF ok
                 THEN [ok |-> TRUE,
                       points |-> rag_retrieve_context(c, search_call.v)]
                 ELSE [ok |-> FALSE, points |-> <<>>]
            out == retrieve_outcome(o)
            context == BuildContext(out.points)
        IN  /\ ~ok => c = <<>>
            /\ collection' = c
            /\ search_result' = o
            /\ scored_points' = out.points
            /\ IF out.fail
               THEN /\ FailAfterSearch(internal_server_error("rag_retrieve_context"))
                    /\ UNCHANGED <<chat_request, merged>>
               ELSE IF ~ShouldInject(out.points)
               THEN /\ Dispatch(chat_request.messages)
                    /\ merged' = merged
               ELSE IF chat_request.messages = <<>>
               THEN /\ FailAfterSearch(
                         internal_server_error("No message in the chat request."))
                    /\ UNCHANGED <<chat_request, merged>>
               ELSE IF ~GLOBAL_RAG_PROMPT.some
               THEN /\ FailAfterSearch(
                         internal_server_error("The global rag prompt is not set."))
                    /\ UNCHANGED <<chat_request, merged>>
               ELSE LET replaced == ReplaceSystemMessage(chat_request.messages,
                                                         GLOBAL_RAG_PROMPT.v)
                        built == RagPromptBuilder_build(replaced, <<context>>)
                    IN  /\ merged' = Some(<<context>>)
                        /\ IF built.err # "Ok"
                           THEN /\ FailAfterSearch(internal_server_error(built.err))
                                /\ chat_request' =
                                     [chat_request EXCEPT !.messages = built.messages]
                           ELSE Dispatch(built.messages)
    /\ UNCHANGED <<QDRANT_CONFIG, qdrant_config, GLOBAL_RAG_PROMPT, handler, req,
                   embedding_response, search_call>>
    /\ UNCHANGED bvars
    /\ UNCHANGED avars

\* chat_completions / chat_completions_stream return: the answer, or the
\* model's error as an internal server error
chat_completions_returns ==
    /\ pc = "completing"
    /\ \E o \in {"Ok", "Err"} :
        resp' = IF o = "Ok" THEN ok_response(dispatched.v.mode)
                ELSE internal_server_error(dispatched.v.mode)
    /\ calls' = Append(calls, Ret("complete"))
    /\ pc' = "done"
    /\ UNCHANGED <<QDRANT_CONFIG, qdrant_config, GLOBAL_RAG_PROMPT, handler, req,
                   chat_request, embedding_response, search_call, collection,
                   search_result, scored_points, merged, dispatched>>
    /\ UNCHANGED bvars
    /\ UNCHANGED avars

\* chat_completions_handler: parse the request and dispatch it as it is
chat_completions_handler ==
    /\ pc = "idle"
    /\ \E r \in Requests :
        /\ req' = r
        /\ handler' = "chat_completions_handler"
        /\ embedding_response' = "none"
        /\ search_call' = None
        /\ collection' = <<>>
        /\ search_result' = NoSearch
        /\ scored_points' = <<>>
        /\ merged' = None
        /\ IF r.method = "OPTIONS"
           THEN /\ ReturnEarly(ok_response("empty"))
                /\ chat_request' = NoChatRequest
                /\ dispatched' = None
           ELSE IF ~r.parse_ok
           THEN /\ ReturnEarly(bad_request("Fail to parse chat completion request"))
                /\ chat_request' = NoChatRequest
                /\ dispatched' = None
           ELSE /\ chat_request' = [messages |-> r.messages, stream |-> r.stream]
                /\ dispatched' = Some([messages |-> r.messages,
                                       stream |-> r.stream,
                                       mode |-> CompletionMode(r.stream)])
                /\ calls' = <<Call("complete")>>
                /\ resp' = NoResp
                /\ pc' = "completing"
    /\ UNCHANGED <<QDRANT_CONFIG, qdrant_config, GLOBAL_RAG_PROMPT>>
    /\ UNCHANGED bvars
    /\ UNCHANGED avars

\* ------------------------------------------------- the merger on its own
\* A message list and a context list to call RagPromptBuilder::build with
BuildMessages == SeqsUpTo(Messages, MaxMsgs)
ContextStrings == {<<>>, <<"c">>, <<SP, "c", NL, NL>>}
BuildContexts == SeqsUpTo(ContextStrings, MaxCtx)

\* One call of RagPromptBuilder::build(&mut messages, &context)
build ==
    /\ b_pc = "ready"
    /\ LET r == RagPromptBuilder_build(b_messages, b_context)
       IN  /\ b_messages' = r.messages
           /\ b_result' = r.err
    /\ b_pc' = "returned"
    /\ UNCHANGED <<b_in, b_context>>
    /\ UNCHANGED qvars
    /\ UNCHANGED avars

\* ------------------------------------------------------------- the archive
\* Two requests in flight at a time: the first to any of the three
\* handlers, the second an upload to files_handler
Procs == {1, 2}
HandlersOf(p) ==
    IF p = 1
    THEN {"files_handler", "doc_to_embeddings",
          "rag_doc_chunks_to_embeddings2_handler"}
    ELSE {"files_handler"}

Digits == <<"1", "2", "3">>
\* format!("file_{}", Uuid::new_v4()): the id request k draws, no two alike
NewId(k) == <<"f", Digits[k]>>

F_txt == <<"n", DOT, "t", "x", "t">>
F_TXT == <<"n", DOT, "T", "X", "T">>
F_pdf == <<"n", DOT, "p", "d", "f">>
F_up == <<DOT, DOT, SLASH>> \o F_txt
F_dotmd == <<DOT, "m", "d">>
\* The file names a client sends
FileNames == {F_txt, F_TXT, F_pdf, F_up, F_dotmd}
\* The bytes a client sends
Datas == {<<"x">>, <<"y", "z">>}

UploadHandlers == {"files_handler", "doc_to_embeddings"}

\* A multipart request: the method, whether the content type names a
\* boundary, whether a "file" field is there and whether it names its file,
\* the file name and the bytes
UploadRequests ==
    [handler : UploadHandlers, method : {"GET"}, boundary : {TRUE},
     field : {"none"}, filename : {<<>>}, data : {<<>>}]
    \cup [handler : UploadHandlers, method : {"POST"}, boundary : {FALSE},
          field : {"none"}, filename : {<<>>}, data : {<<>>}]
    \cup [handler : UploadHandlers, method : {"POST"}, boundary : {TRUE},
          field : {"none", "no_filename"}, filename : {<<>>}, data : {<<>>}]
    \cup [handler : UploadHandlers, method : {"POST"}, boundary : {TRUE},
          field : {"file"}, filename : FileNames, data : Datas]

NoRequest == [handler |-> "none"]

\* A request before it is served
NewProc ==
    [pc |-> "new", req |-> NoRequest, id |-> <<>>, file |-> None,
     made |-> {}, stored |-> None, stages |-> <<>>, chunks |-> <<>>,
     calls |-> <<>>, vectors |-> <<>>, upserts |-> <<>>, resp |-> NoResp]

\* The chunks request before it is served
NoChunks ==
    [pc |-> "idle", id |-> <<>>, filename |-> <<>>, contents |-> None,
     chunker |-> FALSE, resp |-> NoResp]

\* No upload, no ingestion, an empty working directory
NoArchive ==
    /\ fs_dirs = {<<>>}
    /\ fs_files = [f \in {} |-> <<>>]
    /\ procs = [p \in Procs |-> NewProc]
    /\ ch = NoChunks

\* archives/<id>/<filename>, as the handlers join it
FilePath(id, filename) == PathJoin(PathJoin(ArchivesPath, id), filename)

\* write_all at the start of a file just opened: the bytes replace what the
\* file holds from its first byte on
Overlay(old, data) ==
    IF Len(old) <= Len(data) THEN data
    ELSE data \o SubSeq(old, Len(data) + 1, Len(old))

\* An entry of a request's log: a collaborator called with arg, or its
\* outcome
Log(op, ev, arg) == [op |-> op, ev |-> ev, arg |-> arg]

\* The request of p ends with response r
Finish(p, r) == [procs[p] EXCEPT !.pc = "done", !.resp = r]

\* The task of p dies in an unwrap
Panic(p) == [procs[p] EXCEPT !.pc = "panicked"]

\* The upload of files_handler and doc_to_embeddings, up to the existence
\* check of the archive root: the method, boundary.unwrap(), the "file"
\* field, its file name,
\* the extension gate, the fresh id
upload_begin(p) ==
    /\ procs[p].pc = "new"
    /\ ch.pc = "idle"
    /\ \E r \in {u \in UploadRequests : u.handler \in HandlersOf(p)} :
        LET q == [procs[p] EXCEPT !.req = r]
            Reject(m) == [q EXCEPT !.pc = "done",
                                   !.resp = internal_server_error(m)]
        IN
        IF r.method # "POST"
        THEN procs' = [procs EXCEPT ![p] =
                    Reject("Not implemented for listing files.")]
        ELSE IF ~r.boundary
        THEN procs' = [procs EXCEPT ![p] = [q EXCEPT !.pc = "panicked"]]
        ELSE IF r.field = "none"
        THEN procs' = [procs EXCEPT ![p] = Reject(
                    "Failed to upload the target file. Not found the target file.")]
        ELSE IF r.field = "no_filename"
        THEN procs' = [procs EXCEPT ![p] = Reject(
                    "Failed to upload the target file. The filename is not provided.")]
        ELSE IF ~ExtensionAllowed(r.filename)
        THEN procs' = [procs EXCEPT ![p] = Reject(
                    "Failed to upload the target file. Only files with 'txt' and 'md' extensions are supported.")]
        ELSE procs' = [procs EXCEPT ![p] =
                    [q EXCEPT !.id = NewId(p),
                              !.pc = IF PathExists(fs_dirs, fs_files, ArchivesPath)
                                     THEN "check_id" ELSE "create_archives"]]
    /\ UNCHANGED <<fs_dirs, fs_files, ch>>
    /\ UNCHANGED qvars
    /\ UNCHANGED bvars

\* fs::create_dir(path).unwrap() of the archive root
create_archives(p) ==
    /\ procs[p].pc = "create_archives"
    /\ ch.pc = "idle"
    /\ IF CanCreateDir(fs_dirs, fs_files, ArchivesPath)
       THEN /\ fs_dirs' = fs_dirs \cup {Resolve(fs_dirs, ArchivesPath).path}
            /\ procs' = [procs EXCEPT ![p] =
                   [@ EXCEPT !.pc = "check_id",
                             !.made = @ \cup {Resolve(fs_dirs, ArchivesPath).path}]]
       ELSE /\ procs' = [procs EXCEPT ![p] = Panic(p)]
            /\ UNCHANGED fs_dirs
    /\ UNCHANGED <<fs_files, ch>>
    /\ UNCHANGED qvars
    /\ UNCHANGED bvars

\* `!file_path.exists()` of the id directory
check_id(p) ==
    /\ procs[p].pc = "check_id"
    /\ ch.pc = "idle"
    /\ procs' = [procs EXCEPT ![p].pc =
           IF PathExists(fs_dirs, fs_files, PathJoin(ArchivesPath, procs[p].id))
           THEN "create_file" ELSE "create_id_dir"]
    /\ UNCHANGED <<fs_dirs, fs_files, ch>>
    /\ UNCHANGED qvars
    /\ UNCHANGED bvars

\* fs::create_dir(&file_path).unwrap() of the id directory
create_id_dir(p) ==
    /\ procs[p].pc = "create_id_dir"
    /\ ch.pc = "idle"
    /\ LET path == PathJoin(ArchivesPath, procs[p].id) IN
       IF CanCreateDir(fs_dirs, fs_files, path)
       THEN /\ fs_dirs' = fs_dirs \cup {Resolve(fs_dirs, path).path}
            /\ procs' = [procs EXCEPT ![p] =
                   [@ EXCEPT !.pc = "create_file",
                             !.made = @ \cup {Resolve(fs_dirs, path).path}]]
       ELSE /\ procs' = [procs EXCEPT ![p] = Panic(p)]
            /\ UNCHANGED fs_dirs
    /\ UNCHANGED <<fs_files, ch>>
    /\ UNCHANGED qvars
    /\ UNCHANGED bvars

\* File::create(file_path.join(&filename)): the file is created, or emptied
\* when it exists
File_create(p) ==
    /\ procs[p].pc = "create_file"
    /\ ch.pc = "idle"
    /\ LET path == FilePath(procs[p].id, procs[p].req.filename)
           at == Resolve(fs_dirs, path).path
       IN
       IF CanCreateFile(fs_dirs, fs_files, path)
       THEN /\ fs_files' = (at :> <<>>) @@ fs_files
            /\ procs' = [procs EXCEPT ![p] =
                   [@ EXCEPT !.pc = "write", !.file = Some(at),
                             !.made = @ \cup {at}]]
       ELSE /\ procs' = [procs EXCEPT ![p] = Finish(p,
                   internal_server_error("Failed to create archive document"))]
            /\ UNCHANGED fs_files
    /\ UNCHANGED <<fs_dirs, ch>>
    /\ UNCHANGED qvars
    /\ UNCHANGED bvars

\* file.write_all(&buffer[..]).unwrap(): the document is stored; files_handler
\* answers with the file object, doc_to_embeddings goes on
write_all(p) ==
    /\ procs[p].pc = "write"
    /\ ch.pc = "idle"
    /\ LET at == procs[p].file.v IN
       /\ fs_files' = [fs_files EXCEPT ![at] = Overlay(@, procs[p].req.data)]
       /\ procs' = [procs EXCEPT ![p] =
              [@ EXCEPT !.stored = Some(at),
                        !.stages = Append(@, "Uploaded"),
                        !.pc = IF procs[p].req.handler = "files_handler"
                               THEN "done" ELSE "chunk",
                        !.resp = IF procs[p].req.handler = "files_handler"
                                 THEN ok_response("file object") ELSE @]]
    /\ UNCHANGED <<fs_dirs, ch>>
    /\ UNCHANGED qvars
    /\ UNCHANGED bvars

\* ----------------------------------------------------------- the ingestion
\* The chunk capacity the server runs with: so many characters a chunk
ChunkCapacity == 1

RECURSIVE Pieces(_)
\* The text cut into pieces of ChunkCapacity characters, in order
Pieces(text) ==
    IF Len(text) <= ChunkCapacity
    THEN IF text = <<>> THEN <<>> ELSE <<text>>
    ELSE <<SubSeq(text, 1, ChunkCapacity)>>
         \o Pieces(SubSeq(text, ChunkCapacity + 1, Len(text)))

\* What llama_core::rag::chunk_text answers for a text: an error, or its
\* chunks in order
ChunkOutcomes(text) ==
    {[ok |-> FALSE, chunks |-> <<>>], [ok |-> TRUE, chunks |-> Pieces(text)]}

\* The archive look-up that chunks_handler and doc_to_embeddings share: the
\* three existence checks, the extension, File::open, read_to_string
LoadArchived(dirs, files, id, filename) ==
    LET archive_path == PathJoin(ArchivesPath, id)
        file_path == PathJoin(archive_path, filename)
        Fail(m) == [err |-> m, contents |-> <<>>]
    IN
    IF ~PathExists(dirs, files, ArchivesPath)
    THEN Fail("The archives directory does not exist.")
    ELSE IF ~PathExists(dirs, files, archive_path)
    THEN Fail("Not found archive id")
    ELSE IF ~PathExists(dirs, files, file_path)
    THEN Fail("Not found file")
    ELSE IF ~extension(file_path).some
    THEN Fail("Failed to get the extension of the archived file")
    ELSE IF ~CanOpenFile(dirs, files, file_path)
    THEN Fail("Failed to open")
    ELSE [err |-> "ok", contents |-> files[Resolve(dirs, file_path).path]]

\* ChunkResult that goes on after a chunking error
ChunkResult_ignore_error(o) == [fail |-> FALSE, chunks |-> o.chunks]

\* doc_to_embeddings' match on chunk_text's result: an error ends the request
ChunkResult(o) == [fail |-> ~o.ok, chunks |-> o.chunks]

\* EmbeddingInput with the chunks in reverse order
EmbeddingInput_reversed(chunks) ==
    [i \in 1..Len(chunks) |-> chunks[Len(chunks) + 1 - i]]

\* `input: chunks`: the input of the one embedding request
EmbeddingInput(chunks) == chunks

\* The embedding the engine computes for a text
Vector(text) == <<"v">> \o text

\* The points rag_doc_chunks_to_embeddings upserts: point i carries
\* embedding i and the text it was computed from
PointsOf(input, vectors) ==
    [i \in 1..Len(input) |-> [id |-> i, vector |-> vectors[i], source |-> input[i]]]

\* doc_to_embeddings after the upload: the archived document is loaded and
\* chunked, the model name read, the configuration read, the embedding
\* request handed to rag_doc_chunks_to_embeddings
chunk_the_text(p) ==
    /\ procs[p].pc = "chunk"
    /\ ch.pc = "idle"
    /\ LET doc == LoadArchived(fs_dirs, fs_files, procs[p].id,
                             procs[p].req.filename) IN
       \E o \in ChunkOutcomes(doc.contents), names \in {"Err", "OkEmpty", "Ok"} :
        LET r == ChunkResult(o)
            chunked == [procs[p] EXCEPT
                            !.calls = @ \o <<Log("chunk_text", "call", doc.contents),
                                             Log("chunk_text",
                                                 IF o.ok THEN "ok" ELSE "err",
                                                 o.chunks)>>]
            named == [chunked EXCEPT
                            !.chunks = r.chunks,
                            !.stages = Append(@, "Chunked"),
                            !.calls = Append(@, Log("embedding_model_names",
                                                    names, <<>>))]
            End(q, m) == [q EXCEPT !.pc = "done",
                                   !.resp = internal_server_error(m)]
        IN
        procs' = [procs EXCEPT ![p] =
            IF doc.err # "ok" THEN End(procs[p], doc.err)
            ELSE IF r.fail THEN End(chunked, "chunk_text")
            ELSE IF names = "Err" THEN End(named, "embedding_model_names")
            ELSE IF names = "OkEmpty" THEN [named EXCEPT !.pc = "panicked"]
            ELSE IF ~QDRANT_CONFIG
            THEN End(named, "The Qdrant config is not set.")
            ELSE [named EXCEPT
                    !.pc = "embedding",
                    !.calls = Append(@, Log("rag_doc_chunks_to_embeddings",
                                            "call", EmbeddingInput(r.chunks)))]]
    /\ UNCHANGED <<fs_dirs, fs_files, ch>>
    /\ UNCHANGED qvars
    /\ UNCHANGED bvars

\* The body of an embeddings request: unparsable, or the texts to embed
EmbeddingRequests ==
    {[handler |-> "rag_doc_chunks_to_embeddings2_handler", parse_ok |-> FALSE,
      input |-> <<>>]}
    \cup [handler : {"rag_doc_chunks_to_embeddings2_handler"},
          parse_ok : {TRUE}, input : {Pieces(d) : d \in Datas}]

\* rag_doc_chunks_to_embeddings2_handler up to its collaborator call
rag_doc_chunks_to_embeddings2_handler(p) ==
    /\ procs[p].pc = "new"
    /\ ch.pc = "idle"
    /\ "rag_doc_chunks_to_embeddings2_handler" \in HandlersOf(p)
    /\ \E r \in EmbeddingRequests :
        LET q == [procs[p] EXCEPT !.req = r] IN
        procs' = [procs EXCEPT ![p] =
            IF ~r.parse_ok
            THEN [q EXCEPT !.pc = "done",
                           !.resp = bad_request("Fail to parse embedding request")]
            ELSE IF ~QDRANT_CONFIG
            THEN [q EXCEPT !.pc = "done",
                           !.resp = internal_server_error(
                               "The Qdrant config is not set.")]
            ELSE [q EXCEPT
                    !.pc = "embedding",
                    !.chunks = r.input,
                    !.calls = Append(@, Log("rag_doc_chunks_to_embeddings",
                                            "call", r.input))]]
    /\ UNCHANGED <<fs_dirs, fs_files, ch>>
    /\ UNCHANGED qvars
    /\ UNCHANGED bvars

\* The input of the collaborator call of p that is in flight
CallInput(p) ==
    LET k == CHOOSE i \in 1..Len(procs[p].calls) :
                 /\ procs[p].calls[i].op = "rag_doc_chunks_to_embeddings"
                 /\ procs[p].calls[i].ev = "call"
    IN  procs[p].calls[k].arg

\* rag_doc_chunks_to_embeddings, first half: the embeddings of the input are
\* computed, or the call fails
embeddings_computed(p) ==
    /\ procs[p].pc = "embedding"
    /\ ch.pc = "idle"
    /\ \E ok \in BOOLEAN :
        procs' = [procs EXCEPT ![p] =
            IF ok
            THEN [@ EXCEPT !.pc = "upserting",
                           !.stages = Append(@, "Embedded"),
                           !.calls = Append(@, Log("embeddings", "ok", <<>>)),
                           !.vectors = [i \in 1..Len(CallInput(p)) |->
                                            Vector(CallInput(p)[i])]]
            ELSE [@ EXCEPT !.pc = "done",
                           !.calls = Append(@, Log("embeddings", "err", <<>>)),
                           !.resp = internal_server_error(
                               "rag_doc_chunks_to_embeddings")]]
    /\ UNCHANGED <<fs_dirs, fs_files, ch>>
    /\ UNCHANGED qvars
    /\ UNCHANGED bvars

\* rag_doc_chunks_to_embeddings, second half: the points are upserted in one
\* batch and the embeddings returned, or the call fails
points_upserted(p) ==
    /\ procs[p].pc = "upserting"
    /\ ch.pc = "idle"
    /\ \E ok \in BOOLEAN :
        procs' = [procs EXCEPT ![p] =
            IF ok
            THEN [@ EXCEPT !.pc = "done",
                           !.stages = Append(@, "Persisted"),
                           !.upserts = Append(@, PointsOf(CallInput(p),
                                                          procs[p].vectors)),
                           !.calls = Append(@, Log("upsert", "ok", <<>>)),
                           !.resp = ok_response("embedding response")]
            ELSE [@ EXCEPT !.pc = "done",
                           !.calls = Append(@, Log("upsert", "err", <<>>)),
                           !.resp = internal_server_error(
                               "rag_doc_chunks_to_embeddings")]]
    /\ UNCHANGED <<fs_dirs, fs_files, ch>>
    /\ UNCHANGED qvars
    /\ UNCHANGED bvars

\* The id and the file name of a chunks request: ids handed out, the current
\* directory; plain names and names with directories in them
ChunkIds == {NewId(1), <<DOT>>}
ChunkFileNames == {F_txt, F_up, NewId(1) \o <<SLASH>> \o F_txt}
ChunksRequests ==
    {[parse_ok |-> FALSE, id |-> <<>>, filename |-> <<>>]}
    \cup [parse_ok : {TRUE}, id : ChunkIds, filename : ChunkFileNames]

\* chunks_handler: the archived document is loaded and chunked. It is the
\* last request served: what it saw stays comparable with the archive.
chunks_handler ==
    /\ ch.pc = "idle"
    /\ \E r \in ChunksRequests :
        LET doc == LoadArchived(fs_dirs, fs_files, r.id, r.filename)
            asked == [NoChunks EXCEPT !.pc = "done", !.id = r.id,
                                      !.filename = r.filename]
        IN
        IF ~r.parse_ok
        THEN ch' = [asked EXCEPT
                        !.resp = bad_request("Fail to parse chunks request")]
        ELSE IF doc.err # "ok"
        THEN ch' = [asked EXCEPT !.resp = internal_server_error(doc.err)]
        ELSE \E o \in ChunkOutcomes(doc.contents) :
                ch' = [asked EXCEPT
                        !.contents = Some(doc.contents),
                        !.chunker = TRUE,
                        !.resp = IF o.ok THEN ok_response("chunks response")
                                 ELSE internal_server_error("chunk_text")]
    /\ UNCHANGED <<fs_dirs, fs_files, procs>>
    /\ UNCHANGED qvars
    /\ UNCHANGED bvars

\* The archive and the ingestion on their own: no query, no merger
InitArchive ==
    /\ QDRANT_CONFIG \in BOOLEAN
    /\ qdrant_config = [limit |-> 1, score_threshold |-> 8]
    /\ GLOBAL_RAG_PROMPT = None
    /\ pc = "off"
    /\ handler = "none"
    /\ req = [method |-> "OPTIONS", parse_ok |-> FALSE, messages |-> <<>>,
              stream |-> "None"]
    /\ chat_request = NoChatRequest
    /\ embedding_response = "none"
    /\ search_call = None
    /\ collection = <<>>
    /\ search_result = NoSearch
    /\ scored_points = <<>>
    /\ merged = None
    /\ calls = <<>>
    /\ dispatched = None
    /\ resp = NoResp
    /\ b_pc = "off"
    /\ b_in = <<>>
    /\ b_messages = <<>>
    /\ b_context = <<>>
    /\ b_result = "none"
    /\ NoArchive

NextArchive ==
    \/ \E p \in Procs :
        \/ upload_begin(p)
        \/ create_archives(p)
        \/ check_id(p)
        \/ create_id_dir(p)
        \/ File_create(p)
        \/ write_all(p)
        \/ chunk_the_text(p)
        \/ rag_doc_chunks_to_embeddings2_handler(p)
        \/ embeddings_computed(p)
        \/ points_upserted(p)
    \/ chunks_handler

SpecArchive == InitArchive /\ [][NextArchive]_vars

\* The server after start-up: the configuration as main left it, no request
Init ==
    /\ QDRANT_CONFIG \in BOOLEAN
    /\ qdrant_config \in QdrantConfigs
    /\ GLOBAL_RAG_PROMPT \in Prompts
    /\ pc = "idle"
    /\ handler = "none"
    /\ req = [method |-> "OPTIONS", parse_ok |-> FALSE, messages |-> <<>>,
              stream |-> "None"]
    /\ chat_request = NoChatRequest
    /\ embedding_response = "none"
    /\ search_call = None
    /\ collection = <<>>
    /\ search_result = NoSearch
    /\ scored_points = <<>>
    /\ merged = None
    /\ calls = <<>>
    /\ dispatched = None
    /\ resp = NoResp
    /\ b_pc = "off"
    /\ b_in = <<>>
    /\ b_messages = <<>>
    /\ b_context = <<>>
    /\ b_result = "none"
    /\ NoArchive

Next ==
    \/ rag_query_handler
    \/ rag_query_to_embeddings_returns
    \/ rag_retrieve_context_returns
    \/ chat_completions_returns
    \/ chat_completions_handler

Spec == Init /\ [][Next]_vars

\* RagPromptBuilder::build called with any arguments, no server around it
InitBuild ==
    /\ QDRANT_CONFIG = TRUE
    /\ qdrant_config = [limit |-> 1, score_threshold |-> 8]
    /\ GLOBAL_RAG_PROMPT = None
    /\ pc = "off"
    /\ handler = "none"
    /\ req = [method |-> "OPTIONS", parse_ok |-> FALSE, messages |-> <<>>,
              stream |-> "None"]
    /\ chat_request = NoChatRequest
    /\ embedding_response = "none"
    /\ search_call = None
    /\ collection = <<>>
    /\ search_result = NoSearch
    /\ scored_points = <<>>
    /\ merged = None
    /\ calls = <<>>
    /\ dispatched = None
    /\ resp = NoResp
    /\ b_pc = "ready"
    /\ b_in \in BuildMessages
    /\ b_messages = b_in
    /\ b_context \in BuildContexts
    /\ b_result = "none"
    /\ NoArchive

NextBuild == build

SpecBuild == InitBuild /\ [][NextBuild]_vars

\* ================================================================== claims
\* The request in flight is a parsed chat request in rag_query_handler
IsQuery ==
    /\ handler = "rag_query_handler"
    /\ req.method = "POST"
    /\ req.parse_ok

\* The message list is empty, or its last message is not a user message,
\* or its last message has no text content
BadShape(messages) ==
    \/ messages = <<>>
    \/ messages[Len(messages)].role # "user"
    \/ messages[Len(messages)].kind # "text"

Returned(op) == \E i \in 1..Len(calls) : calls[i] = Ret(op)
Called(op) == \E i \in 1..Len(calls) : calls[i] = Call(op)

\* C1 as stated: a chat request with a bad last message gets a bad-request
\* error and no collaborator is called.
C1_AsStated ==
    (IsQuery /\ BadShape(req.messages))
        => /\ resp.status = "bad_request"
           /\ calls = <<>>

\* C1, amended: a chat request with an empty message list, a non-user last
\* message or a non-text last user message makes no collaborator call and is
\* answered at once; the answer is a bad-request error when the retrieval
\* configuration is set, and the configuration error when it is not.
C1_ValidationFailsFast ==
    (IsQuery /\ BadShape(req.messages))
        => /\ calls = <<>>
           /\ pc = "done"
           /\ ~dispatched.some
           /\ IF QDRANT_CONFIG
              THEN resp.status = "bad_request"
              ELSE resp = internal_server_error("The Qdrant config is not set.")

C1_Witness ==
    /\ IsQuery
    /\ QDRANT_CONFIG
    /\ Len(req.messages) = 2
    /\ req.messages[2].role = "assistant"
    /\ resp = bad_request("The last message must be a user message")

\* C2: when the vector search returns an error the request goes on with no
\* retrieved point and the conversation is dispatched to the completion
\* collaborator.
C2_SearchErrorDegrades ==
    (IsQuery /\ Returned("search") /\ ~search_result.ok)
        => /\ scored_points = <<>>
           /\ Called("complete")
           /\ dispatched.some
           /\ calls[5] = Call("complete")

C2_Witness ==
    /\ IsQuery
    /\ Returned("search")
    /\ ~search_result.ok
    /\ pc = "completing"
    /\ resp = NoResp

\* C3: with no retrieved point (empty result or search error) the messages
\* dispatched to the completion collaborator are the caller's, unchanged.
C3_NoPointsNoRewrite ==
    (IsQuery /\ Returned("search") /\ scored_points = <<>>)
        => /\ dispatched.some
           /\ dispatched.v.messages = req.messages
           /\ chat_request.messages = req.messages
           /\ ~merged.some

C3_Witness ==
    /\ IsQuery
    /\ Returned("search")
    /\ search_result.ok
    /\ scored_points = <<>>
    /\ GLOBAL_RAG_PROMPT.some
    /\ req.messages[1].role = "system"
    /\ dispatched.some
    /\ dispatched.v.messages = req.messages

\* Context was found and the conversation reached the completion collaborator
Injected ==
    /\ IsQuery
    /\ scored_points # <<>>
    /\ dispatched.some

\* C4 as stated: after an injection message 0 is a system message whose
\* content is the base prompt, a newline, the trimmed context.
C4_AsStated ==
    Injected
        => /\ dispatched.v.messages[1].role = "system"
           /\ dispatched.v.messages[1].content =
                GLOBAL_RAG_PROMPT.v \o <<NL>> \o TrimEnd(merged.v[1])

\* C4, amended: whenever at least one point is retrieved and the request
\* reaches dispatch, message 0 dispatched is a system message whose content
\* is the base prompt with its leading and trailing whitespace trimmed, a
\* newline, and the context with its trailing whitespace trimmed, whatever
\* the caller's message 0 was.
C4_SystemPromptIsTrimmedBasePlusContext ==
    Injected
        => /\ merged.some
           /\ GLOBAL_RAG_PROMPT.some
           /\ dispatched.v.messages[1].role = "system"
           /\ dispatched.v.messages[1].kind = "text"
           /\ dispatched.v.messages[1].content =
                Trim(GLOBAL_RAG_PROMPT.v) \o <<NL>> \o TrimEnd(merged.v[1])

C4_Witness ==
    /\ Injected
    /\ GLOBAL_RAG_PROMPT.v = P_pad
    /\ req.messages[1].role = "system"
    /\ req.messages[1].content = S_pad
    /\ dispatched.v.messages[1].content =
         <<"p", NL, QUOTE, "a", QUOTE>>

\* C5: when context is injected, a conversation without a system message at
\* index 0 gets one inserted there and all its messages follow unchanged,
\* one place later; a conversation with a system message at index 0 has it
\* replaced in place and all later messages stay where and what they were.
C5_InsertOrReplaceAtIndexZero ==
    Injected
        => LET orig == req.messages
               sent == dispatched.v.messages
           IN  /\ sent[1].role = "system"
               /\ IF orig[1].role # "system"
                  THEN /\ Len(sent) = Len(orig) + 1
                       /\ \A i \in 1..Len(orig) : sent[i + 1] = orig[i]
                  ELSE /\ Len(sent) = Len(orig)
                       /\ \A i \in 2..Len(orig) : sent[i] = orig[i]

C5_Witness ==
    /\ Injected
    /\ Len(req.messages) = 2
    /\ req.messages[1].role = "assistant"
    /\ Len(dispatched.v.messages) = 3
    /\ dispatched.v.messages[2] = req.messages[1]
    /\ dispatched.v.messages[3] = req.messages[2]

RECURSIVE JoinSources(_)
\* The points' source fields as they are, in order, a blank line between two
JoinSources(points) ==
    IF points = <<>> THEN <<>>
    ELSE IF ~(Head(points).present /\ Head(points).has_source)
    THEN JoinSources(Tail(points))
    ELSE IF JoinSources(Tail(points)) = <<>> THEN Head(points).source
    ELSE Head(points).source \o <<NL, NL>> \o JoinSources(Tail(points))

RECURSIVE RenderSources(_)
\* The points' source fields in JSON rendering, in order, each followed by a
\* blank line
RenderSources(points) ==
    IF points = <<>> THEN <<>>
    ELSE IF ~(Head(points).present /\ Head(points).has_source)
    THEN RenderSources(Tail(points))
    ELSE <<QUOTE>> \o EscapeStr(Head(points).source) \o <<QUOTE, NL, NL>>
         \o RenderSources(Tail(points))

\* C6 as stated: the context handed to the merger is the retrieved points'
\* source fields, in result order, separated by a blank line.
C6_AsStated ==
    (IsQuery /\ merged.some) => merged.v = <<JoinSources(scored_points)>>

\* C6, amended: the context handed to the merger is one string, the
\* concatenation in result order of the JSON rendering (quoted and escaped)
\* of each retrieved point's source field, each followed by a blank line;
\* a point without payload or without source adds nothing.
C6_ContextIsRenderedSourcesInOrder ==
    (IsQuery /\ merged.some)
        => /\ scored_points # <<>>
           /\ merged.v = <<RenderSources(scored_points)>>

C6_Witness ==
    /\ IsQuery
    /\ merged.some
    /\ scored_points = <<SourcePayload(Src_b), SourcePayload(Src_a)>>
    /\ merged.v = <<<<QUOTE, "b", BSL, "n", QUOTE, NL, NL,
                      QUOTE, "a", QUOTE, NL, NL>>>>

\* build has returned from a call with a system message at index 0 and a
\* context list that is not empty
BuiltOnSystem ==
    /\ b_pc = "returned"
    /\ b_in # <<>>
    /\ b_in[1].role = "system"
    /\ b_context # <<>>

\* C7: given a system message with content S at index 0 and a context list
\* starting with C, build succeeds and changes the content of message 0 to
\* trim(S), a newline, trim_end(C), and nothing else.
C7_BuildMergesIntoSystemMessage ==
    BuiltOnSystem
        => /\ b_result = "Ok"
           /\ b_messages =
                [b_in EXCEPT ![1].content =
                    Trim(b_in[1].content) \o <<NL>> \o TrimEnd(b_context[1])]

C7_Witness ==
    /\ BuiltOnSystem
    /\ Len(b_in) = 2
    /\ b_in[1] = Msg("system", "text", S_pad, Bob)
    /\ b_context = <<<<SP, "c", NL, NL>>, <<"c">>>>
    /\ b_messages[1] = Msg("system", "text", <<"a", NL, SP, "c">>, Bob)
    /\ b_messages[2] = b_in[2]

\* C8 as stated: build fails with the no-messages error when the message
\* list is empty and with the no-context error when the context list is
\* empty, leaving the messages unchanged.
C8_AsStated ==
    b_pc = "returned"
        => /\ b_in = <<>> => b_result = "NoMessages"
           /\ b_context = <<>> => b_result = "Operation"
           /\ b_result # "Ok" => b_messages = b_in

\* C8, amended: build fails with the no-messages error when the message list
\* is empty, and with the no-context error when the context list is empty
\* and the message list is not (the messages are checked first); in both
\* error cases the message list is left unchanged.
C8_BuildRejectsEmptyArguments ==
    b_pc = "returned"
        => /\ b_in = <<>> => b_result = "NoMessages"
           /\ (b_in # <<>> /\ b_context = <<>>) => b_result = "Operation"
           /\ (b_in # <<>> /\ b_context # <<>>) => b_result = "Ok"
           /\ b_result # "Ok" => b_messages = b_in

C8_Witness ==
    /\ b_pc = "returned"
    /\ b_in = <<Msg("system", "text", S_b, NoName)>>
    /\ b_context = <<>>
    /\ b_result = "Operation"
    /\ b_messages = b_in

\* C9: the completion operation dispatched to is the streaming one exactly
\* when the caller's stream flag is true, the non-streaming one otherwise,
\* and the flag dispatched is the caller's.
C9_DispatchFollowsStreamFlag ==
    dispatched.some
        => /\ (dispatched.v.mode = "chat_completions_stream")
                <=> (req.stream = "Some(true)")
           /\ (dispatched.v.mode = "chat_completions")
                <=> (req.stream \in {"Some(false)", "None"})
           /\ dispatched.v.stream = req.stream
           /\ chat_request.stream = req.stream

C9_Witness ==
    /\ IsQuery
    /\ dispatched.some
    /\ req.stream = "None"
    /\ dispatched.v.mode = "chat_completions"
    /\ scored_points # <<>>

\* The chain of collaborator calls of one query
QueryChain ==
    <<Call("embed"), Ret("embed"), Call("search"), Ret("search"),
      Call("complete"), Ret("complete")>>

\* C10: within one query the collaborators are called at most once each, in
\* the order embed, search, complete, each call after the previous one has
\* returned, and no call is made again after a failure.
C10_SequentialChainNoRetry ==
    handler = "rag_query_handler"
        => /\ Len(calls) <= Len(QueryChain)
           /\ calls = SubSeq(QueryChain, 1, Len(calls))
           /\ (resp.status \in {"bad_request", "internal_server_error"})
                => pc = "done"

C10_Witness ==
    /\ handler = "rag_query_handler"
    /\ calls = QueryChain
    /\ pc = "done"
    /\ resp.status = "ok"

RECURSIVE Eligible(_, _)
\* The payloads of the candidates scoring at or above t, in order
Eligible(c, t) ==
    IF c = <<>> THEN <<>>
    ELSE IF Head(c).score >= t
    THEN <<Head(c).payload>> \o Eligible(Tail(c), t)
    ELSE Eligible(Tail(c), t)

\* The first n elements of s, all of s when it is shorter
Take(s, n) == IF Len(s) <= n THEN s ELSE SubSeq(s, 1, n)

\* C19: the search call carries the configured limit and the configured
\* score threshold, and the pipeline filters nothing itself: with a search
\* that respects the threshold, the points that go into the context are
\* exactly the candidates scoring at or above the threshold, up to the
\* limit, and the context is made of all of them.
C19_ThresholdPushedDown ==
    /\ (IsQuery /\ Called("search"))
        => /\ search_call.some
           /\ search_call.v.limit = qdrant_config.limit
           /\ search_call.v.score_threshold = Some(qdrant_config.score_threshold)
    /\ (IsQuery /\ Returned("search") /\ search_result.ok)
        => /\ scored_points = search_result.points
           /\ scored_points =
                Take(Eligible(collection, qdrant_config.score_threshold),
                     qdrant_config.limit)
    /\ (IsQuery /\ merged.some)
        => merged.v = <<RenderSources(scored_points)>>

C19_Witness ==
    /\ IsQuery
    /\ qdrant_config = [limit |-> 2, score_threshold |-> 8]
    /\ collection = <<[score |-> 9, payload |-> SourcePayload(Src_a)],
                      [score |-> 7, payload |-> SourcePayload(Src_b)]>>
    /\ scored_points = <<SourcePayload(Src_a)>>
    /\ merged = Some(<<<<QUOTE, "a", QUOTE, NL, NL>>>>)
    /\ dispatched.some


\* --------------------------------------------------- claims on the archive
\* Request p carries a "file" field with a file name to an upload handler
SentFile(p) ==
    /\ procs[p].req.handler \in UploadHandlers
    /\ procs[p].req.method = "POST"
    /\ procs[p].req.field = "file"

\* The file name ends in the suffix, letter case aside
NameEndsIn(f, e) ==
    /\ Len(f) >= Len(e)
    /\ \A i \in 1..Len(e) : to_lowercase_char(f[Len(f) - Len(e) + i]) = e[i]

\* Request p is an ingestion through doc_to_embeddings
Ingests(p) == procs[p].req.handler = "doc_to_embeddings"

\* The log of request p has an entry of op with event ev
Logged(p, op, ev) ==
    \E i \in 1..Len(procs[p].calls) :
        procs[p].calls[i].op = op /\ procs[p].calls[i].ev = ev

\* The request of p is over with an error response
EndedInError(p) ==
    /\ procs[p].pc = "done"
    /\ procs[p].resp.status \in {"internal_server_error", "bad_request"}

Stages == <<"Uploaded", "Chunked", "Embedded", "Persisted">>
IsPrefix(s, t) == Len(s) <= Len(t) /\ \A i \in 1..Len(s) : s[i] = t[i]

EmbeddingCalls(p) ==
    {i \in 1..Len(procs[p].calls) :
        /\ procs[p].calls[i].op = "rag_doc_chunks_to_embeddings"
        /\ procs[p].calls[i].ev = "call"}

\* C12: an ingestion whose document was cut into N chunks issues at most one
\* embedding request, whose input is the N chunks in the chunker's order, and
\* at most one upsert, of N points; embedding i and point i belong to chunk i.
C12_OneRequestInChunkOrder ==
    \A p \in Procs : (Ingests(p) /\ Logged(p, "chunk_text", "ok")) =>
        LET chunks == procs[p].chunks
            N == Len(chunks)
        IN
        /\ \A i \in 1..Len(procs[p].calls) :
              (procs[p].calls[i].op = "chunk_text" /\ procs[p].calls[i].ev = "ok")
                  => procs[p].calls[i].arg = chunks
        /\ Cardinality(EmbeddingCalls(p)) <= 1
        /\ \A i \in EmbeddingCalls(p) : procs[p].calls[i].arg = chunks
        /\ Logged(p, "embeddings", "ok") =>
              /\ Len(procs[p].vectors) = N
              /\ \A i \in 1..N : procs[p].vectors[i] = Vector(chunks[i])
        /\ Len(procs[p].upserts) <= 1
        /\ Logged(p, "upsert", "ok") =>
              /\ Len(procs[p].upserts) = 1
              /\ Len(procs[p].upserts[1]) = N
              /\ \A i \in 1..N :
                    /\ procs[p].upserts[1][i].source = chunks[i]
                    /\ procs[p].upserts[1][i].vector = Vector(chunks[i])

\* A document of two chunks ingested to the end
C12_Witness ==
    /\ Ingests(1)
    /\ procs[1].chunks = <<<<"y">>, <<"z">>>>
    /\ procs[1].pc = "done"
    /\ procs[1].resp.status = "ok"
    /\ Len(procs[1].upserts) = 1
    /\ Len(procs[1].upserts[1]) = 2

\* C14: an upload whose file name, letter case aside, ends neither in ".txt"
\* nor in ".md" is rejected with an error; it draws no id and creates no
\* directory and no file.
C14_RejectedUploadLeavesNoTrace ==
    \A p \in Procs :
        (/\ SentFile(p)
         /\ ~NameEndsIn(procs[p].req.filename, Ext_txt)
         /\ ~NameEndsIn(procs[p].req.filename, Ext_md))
        => /\ EndedInError(p)
           /\ procs[p].id = <<>>
           /\ procs[p].made = {}
           /\ ~procs[p].file.some
           /\ ~procs[p].stored.some
           /\ procs[p].stages = <<>>
           /\ procs[p].calls = <<>>

\* A ".pdf" upload rejected while the archive holds another document
C14_Witness ==
    /\ SentFile(1)
    /\ procs[1].req.filename = F_pdf
    /\ procs[1].pc = "done"
    /\ procs[2].stored.some
    /\ procs[2].stored.v \in DOMAIN fs_files


\* Request p passed the extension gate and drew its id
Accepted(p) == SentFile(p) /\ procs[p].id # <<>>

\* C13: once an ingestion has archived its document and then ended in an
\* error, the archive holds the document's bytes under the request's id and
\* file name, and a chunks request for that id and file name loads them.
C13_AsStated ==
    \A p \in Procs : (Ingests(p) /\ procs[p].stored.some /\ EndedInError(p)) =>
        LET path == FilePath(procs[p].id, procs[p].req.filename) IN
        /\ CanOpenFile(fs_dirs, fs_files, path)
        /\ fs_files[Resolve(fs_dirs, path).path] = procs[p].req.data
        /\ (ch.pc = "done" /\ ch.id = procs[p].id
                /\ ch.filename = procs[p].req.filename)
              => ch.contents = Some(procs[p].req.data)

\* C15: two uploads of one file name in flight together both succeed: neither
\* dies or ends without its document stored, their ids and their paths
\* differ, and each stored document holds its own bytes.
C15_AsStated ==
    (/\ Accepted(1)
     /\ Accepted(2)
     /\ procs[1].req.filename = procs[2].req.filename)
    => /\ \A p \in Procs :
            /\ procs[p].pc # "panicked"
            /\ procs[p].pc = "done" => procs[p].stored.some
            /\ procs[p].stored.some =>
                  /\ procs[p].stored.v \in DOMAIN fs_files
                  /\ fs_files[procs[p].stored.v] = procs[p].req.data
       /\ procs[1].id # procs[2].id
       /\ (procs[1].file.some /\ procs[2].file.some)
              => procs[1].file.v # procs[2].file.v

\* C16: whenever the file of an upload exists at its archive path, it holds
\* all the bytes of the upload.
C16_AsStated ==
    \A p \in Procs : (Accepted(p) /\ procs[p].file.some) =>
        /\ procs[p].file.v \in DOMAIN fs_files
        /\ fs_files[procs[p].file.v] = procs[p].req.data

\* An upload created its file under exactly this id and file name
CreatedAs(id, filename) ==
    \E p \in Procs :
        /\ Accepted(p)
        /\ procs[p].file.some
        /\ procs[p].id = id
        /\ procs[p].req.filename = filename

\* C17: a chunks request whose id and file name no upload stored a document
\* under is answered with an error and the chunker is not called; a document
\* is loaded only for the id and file name it was uploaded with.
C17_AsStated ==
    (ch.pc = "done" /\ ~CreatedAs(ch.id, ch.filename))
    => /\ ~ch.chunker
       /\ ~ch.contents.some
       /\ ch.resp.status \in {"internal_server_error", "bad_request"}

\* Request p is a well-formed request to a handler that needs the retrieval
\* configuration
NeedsConfig(p) ==
    \/ Ingests(p) /\ Accepted(p)
    \/ /\ procs[p].req.handler = "rag_doc_chunks_to_embeddings2_handler"
       /\ procs[p].req.parse_ok

\* C18: with the retrieval configuration unset, a request that needs it
\* creates nothing in the archive, chunks nothing, calls no collaborator, and
\* ends with the configuration error.
C18_AsStated ==
    ~QDRANT_CONFIG =>
        \A p \in Procs : NeedsConfig(p) =>
            /\ procs[p].made = {}
            /\ procs[p].stages = <<>>
            /\ procs[p].calls = <<>>
            /\ procs[p].pc # "panicked"
            /\ procs[p].pc = "done" =>
                  procs[p].resp =
                      internal_server_error("The Qdrant config is not set.")

\* C20: a document, once stored, stays in the archive with the bytes it was
\* stored with.
C20_AsStated ==
    \A p \in Procs : procs[p].stored.some =>
        /\ procs[p].stored.v \in DOMAIN fs_files
        /\ fs_files[procs[p].stored.v] = procs[p].req.data


\* ------------------------------------------- further claims on the query
\* C21: whenever rag_query_handler calls RagPromptBuilder::build, the context
\* list it passes has a first element and that context string is not empty,
\* also when the retrieved points carry no source.
C21_AsStated ==
    (IsQuery /\ merged.some) =>
        /\ merged.v # <<>>
        /\ merged.v[1] # <<>>


\* C24: when the embedding call of a query fails, or returns no embedding,
\* rag_query_handler ends the request with an internal server error and
\* calls neither the vector search nor the completion.
C24_EmbeddingFailureEndsRequest ==
    (IsQuery /\ embedding_response \in {"Err", "OkEmpty"}) =>
        /\ pc = "done"
        /\ resp.status = "internal_server_error"
        /\ ~Called("search")
        /\ ~search_call.some
        /\ ~Called("complete")
        /\ ~dispatched.some

\* A query whose embedding response came back empty
C24_Witness ==
    /\ IsQuery
    /\ embedding_response = "OkEmpty"
    /\ Returned("embed")
    /\ resp = internal_server_error("No embeddings returned")

\* C25: with the base prompt unset, a query for which the search returned at
\* least one point ends with an error and no completion call, and a query for
\* which it returned none (or failed) is dispatched with the caller's messages.
C25_PromptRequiredOnlyWithPoints ==
    (IsQuery /\ ~GLOBAL_RAG_PROMPT.some /\ Returned("search")) =>
        /\ (search_result.ok /\ search_result.points # <<>>) =>
              /\ pc = "done"
              /\ resp = internal_server_error("The global rag prompt is not set.")
              /\ ~Called("complete")
              /\ ~dispatched.some
        /\ (~search_result.ok \/ search_result.points = <<>>) =>
              /\ Called("complete")
              /\ dispatched.some
              /\ dispatched.v.messages = req.messages
              /\ ~merged.some

\* A query that found a point while the base prompt is unset
C25_Witness ==
    /\ IsQuery
    /\ ~GLOBAL_RAG_PROMPT.some
    /\ search_result.ok
    /\ Len(search_result.points) = 1
    /\ pc = "done"
    /\ resp.status = "internal_server_error"


\* build returned after a call with messages that do not start with a system
\* message and with a context list that is not empty
BuiltOnNonSystem ==
    /\ b_pc = "returned"
    /\ b_in # <<>>
    /\ b_in[1].role # "system"
    /\ b_context # <<>>

\* C26: build called with messages that do not start with a system message
\* and a non-empty context list succeeds and leaves every message as it was;
\* and whenever build succeeds, the messages after it depend on the first
\* context element alone: message 0 is unchanged or carries that element,
\* every other message is unchanged.
C26_ContextDroppedWithoutSystemMessage ==
    /\ BuiltOnNonSystem => (b_result = "Ok" /\ b_messages = b_in)
    /\ (b_pc = "returned" /\ b_result = "Ok") =>
          /\ Len(b_messages) = Len(b_in)
          /\ \A i \in 2..Len(b_in) : b_messages[i] = b_in[i]
          /\ b_messages[1].role = b_in[1].role
          /\ b_messages[1].name = b_in[1].name
          /\ b_messages[1].content \in
                {b_in[1].content,
                 Trim(b_in[1].content) \o <<NL>> \o TrimEnd(b_context[1])}

\* A user message and two context strings: the call succeeds, nothing changes
C26_Witness ==
    /\ BuiltOnNonSystem
    /\ b_in[1].role = "user"
    /\ Len(b_context) = 2
    /\ b_context[1] # b_context[2]
    /\ b_context[1] # <<>>
    /\ b_result = "Ok"
    /\ b_messages = b_in


\* ----------------------------------------- further claims on the archive
\* C22: no upload or ingestion request, and no query, ends in a panic: every
\* failure ends the request with an error response.
C22_AsStated ==
    /\ pc # "panicked"
    /\ \A p \in Procs :
          /\ procs[p].pc # "panicked"
          /\ procs[p].pc = "done" => procs[p].resp.status # "none"

Fmt_txt == <<"t", "x", "t">>
Fmt_md == <<"m", "d">>

\* C23: an ingestion whose file name passed the gate and whose document is
\* stored gets past the extension extraction: the chunker is called, and the
\* extension of the archived path is "txt" or "md", letter case aside.
C23_AsStated ==
    \A p \in Procs :
        (/\ Ingests(p)
         /\ Accepted(p)
         /\ procs[p].stored.some
         /\ procs[p].pc # "chunk")
        => LET e == extension(FilePath(procs[p].id, procs[p].req.filename)) IN
           /\ e.some
           /\ to_lowercase(e.v) \in {Fmt_txt, Fmt_md}
           /\ Logged(p, "chunk_text", "call")

====
